---- MODULE Spec2Model ----
(***************************************************************************)
(* Model of transac2.py: the insider-transaction pipeline load_data, its   *)
(* helpers clean_value and format_currency, the st.cache_data memoisation  *)
(* of load_data, and the "Analyze" button handler of main.                 *)
(*                                                                         *)
(* Text (tickers, kind descriptions, currency strings, ISO dates) is a     *)
(* sequence of one-character strings.  Amounts are whole numbers.  A date  *)
(* is the number YYYYMMDD, whose order is the calendar order.              *)
(***************************************************************************)
EXTENDS Integers, Sequences, FiniteSets

VARIABLES
    cache,      \* st.cache_data store of load_data: ticker key -> returned tables
    calls,      \* per ticker key: the outcomes ("raise", "none", "df") of its retrievals, in order
    ticker,     \* the text of the input box at the last click on "Analyze"
    fetched,    \* what the retrieval gave to the last run of load_data's body
    tables      \* the four tables the last click displayed

vars == <<cache, calls, ticker, fetched, tables>>

\* ------------------------------------------------------------------ bounds

\* Most rows in one retrieved record set.
MaxRows == 3

\* Most rows in a record set whose raw values vary.
MaxValueRows == 2

\* Most rows in a record set whose columns vary.
MaxSchemaRows == 2

\* Most retrievals of one ticker the model follows (only a cache that forgets
\* can reach it).
MaxCalls == 2

\* ------------------------------------------------------------- characters

DigitChars == <<"0", "1", "2", "3", "4", "5", "6", "7", "8", "9">>

UpperLetters == <<"A", "B", "C", "D", "E", "G", "H", "L", "N", "P", "R", "S", "T", "U", "V", "Y">>

LowerLetters == <<"a", "b", "c", "d", "e", "g", "h", "l", "n", "p", "r", "s", "t", "u", "v", "y">>

IsDigit(c) == \E d \in 1..Len(DigitChars) : DigitChars[d] = c

DigitVal(c) == (CHOOSE d \in 1..Len(DigitChars) : DigitChars[d] = c) - 1

\* str.lower / str.upper on one character: letters change case, the rest stay.
LowerChar(c) ==
    IF \E i \in 1..Len(UpperLetters) : UpperLetters[i] = c
    THEN LowerLetters[CHOOSE i \in 1..Len(UpperLetters) : UpperLetters[i] = c]
    ELSE c

UpperChar(c) ==
    IF \E i \in 1..Len(LowerLetters) : LowerLetters[i] = c
    THEN UpperLetters[CHOOSE i \in 1..Len(LowerLetters) : LowerLetters[i] = c]
    ELSE c

Lower(s) == [i \in 1..Len(s) |-> LowerChar(s[i])]

\* ticker.upper()
Upper(s) == [i \in 1..Len(s) |-> UpperChar(s[i])]

\* ------------------------------------------------------------- raw values

\* A cell of the feed: missing (None / NaN), a number, or a string.
Null == [t |-> "null"]

Num(n) == [t |-> "num", n |-> n]

Str(s) == [t |-> "str", s |-> s]

\* value.replace('$', '').replace(',', '')
StripCurrency(s) == SelectSeq(s, LAMBDA c : c \notin {"$", ","})

RECURSIVE NatOf(_)
NatOf(s) == IF s = <<>> THEN 0 ELSE 10 * NatOf(SubSeq(s, 1, Len(s) - 1)) + DigitVal(s[Len(s)])

Unsigned(s) == IF s # <<>> /\ s[1] \in {"-", "+"} THEN Tail(s) ELSE s

\* Whether float(s) succeeds, over the modelled alphabet: an optional sign and
\* one or more digits.
FloatParses(s) == Unsigned(s) # <<>> /\ \A i \in 1..Len(Unsigned(s)) : IsDigit(Unsigned(s)[i])

FloatOf(s) == IF s[1] = "-" THEN 0 - NatOf(Unsigned(s)) ELSE NatOf(Unsigned(s))

clean_value_keeps_commas(value) ==
    IF value.t = "str"
    THEN IF FloatParses(SelectSeq(value.s, LAMBDA c : c # "$"))
         THEN FloatOf(SelectSeq(value.s, LAMBDA c : c # "$"))
         ELSE 0
    ELSE IF value.t = "num" THEN value.n ELSE 0

clean_value_abs(value) ==
    IF value.t = "str"
    THEN IF FloatParses(StripCurrency(value.s))
         THEN NatOf(Unsigned(StripCurrency(value.s)))
         ELSE 0
    ELSE IF value.t = "num" THEN (IF value.n < 0 THEN 0 - value.n ELSE value.n) ELSE 0

clean_value(value) ==
    IF value.t = "str"
    THEN IF FloatParses(StripCurrency(value.s))
         THEN FloatOf(StripCurrency(value.s))
         ELSE 0
    ELSE IF value.t = "num" THEN value.n ELSE 0

\* ------------------------------------------------------------- formatting

RECURSIVE DigitsOf(_)
DigitsOf(n) == IF n < 10 THEN <<DigitChars[n + 1]>> ELSE DigitsOf(n \div 10) \o <<DigitChars[(n % 10) + 1]>>

\* The "," of the format specification: a comma before every group of three
\* digits but the first.
RECURSIVE Grouped(_)
Grouped(ds) ==
    IF Len(ds) <= 3 THEN ds
    ELSE Grouped(SubSeq(ds, 1, Len(ds) - 3)) \o <<",">> \o SubSeq(ds, Len(ds) - 2, Len(ds))

\* f"${value:,.2f}" of a whole amount; value is never null where it is called.
format_currency(value) ==
    <<"$">> \o (IF value < 0 THEN <<"-">> ELSE <<>>)
            \o Grouped(DigitsOf(IF value < 0 THEN 0 - value ELSE value))
            \o <<".", "0", "0">>

TwoDigits(n) == <<DigitChars[(n \div 10) + 1], DigitChars[(n % 10) + 1]>>

\* dt.strftime('%Y-%m-%d')
strftime(d) ==
    DigitsOf(d \div 10000) \o <<"-">> \o TwoDigits((d \div 100) % 100) \o <<"-">> \o TwoDigits(d % 100)

\* ---------------------------------------------------------- the record set

\* What empresa.insider_transactions gives: an exception, None, or a
\* DataFrame.  A DataFrame is its set of column names and its rows; a row
\* holds a cell for every column the model knows, and the cells of columns
\* the DataFrame lacks are never read.
Raised == [kind |-> "raise"]

NoFrame == [kind |-> "none"]

Frame(columns, rows) == [kind |-> "df", columns |-> columns, rows |-> rows]

Row(startDate, date, text, type, insider, value) ==
    [StartDate |-> startDate, Date |-> date, Text |-> text, Type |-> type,
     Insider |-> insider, Value |-> value]

\* pd.to_datetime('2023-01-01')
date_filter == 20230101

\* Lines 38-41: the column that becomes df['Date'].
HasDateColumn(df) == "Start Date" \in df.columns \/ "Date" \in df.columns

DateCell(df, r) == IF "Start Date" \in df.columns THEN r.StartDate ELSE r.Date

\* Lines 50-55: the column the two str.contains filters read.
HasKindColumn(df) == "Text" \in df.columns \/ "Type" \in df.columns

KindCell(df, r) == IF "Text" \in df.columns THEN r.Text ELSE r.Type

\* Series.str.contains(pat, na=False, case=False) on one cell, for a pattern
\* without regular-expression operators: a cell that is no string gives False.
str_contains(cell, pat) ==
    /\ cell.t = "str"
    /\ LET text == Lower(cell.s)
           word == Lower(pat)
       IN \E i \in 1..(Len(text) - Len(word) + 1) : SubSeq(text, i, i + Len(word) - 1) = word

SalePattern == <<"S", "a", "l", "e">>

PurchasePattern == <<"P", "u", "r", "c", "h", "a", "s", "e">>

BuyPattern == <<"B", "u", "y">>

date_filter_exclusive(df) == SelectSeq(df.rows, LAMBDA r : DateCell(df, r) > date_filter)

\* Line 48.
df_filtered(df) == SelectSeq(df.rows, LAMBDA r : DateCell(df, r) >= date_filter)

\* Lines 51 and 54.
venda_filter(df) ==
    SelectSeq(df_filtered(df), LAMBDA r : str_contains(KindCell(df, r), SalePattern))

\* Lines 52 and 55: the pattern 'Purchase|Buy'.
compra_filter(df) ==
    SelectSeq(df_filtered(df),
              LAMBDA r : \/ str_contains(KindCell(df, r), PurchasePattern)
                         \/ str_contains(KindCell(df, r), BuyPattern))

Permutations(n) == {p \in [1..n -> 1..n] : \A i, j \in 1..n : p[i] = p[j] => i = j}

Reorder(rows, p) == [i \in 1..Len(rows) |-> rows[p[i]]]

sort_by_date_ascending(df, rows) ==
    {Reorder(rows, p) : p \in {q \in Permutations(Len(rows)) :
        \A i, j \in 1..Len(rows) :
            i < j => DateCell(df, rows[q[i]]) <= DateCell(df, rows[q[j]])}}

\* Lines 58-59: sort_values('Date', ascending=False) with the default
\* kind='quicksort', which is not a stable sort: every descending order of the
\* rows is a possible outcome.
sort_by_date(df, rows) ==
    {Reorder(rows, p) : p \in {q \in Permutations(Len(rows)) :
        \A i, j \in 1..Len(rows) :
            i < j => DateCell(df, rows[q[i]]) >= DateCell(df, rows[q[j]])}}

\* Lines 62-65 and 76-87: the value columns, the date as text, and the
\* display columns Date, Insider, Value, Value_Float.
display_rows(df, rows) ==
    [i \in 1..Len(rows) |->
        [Date |-> strftime(DateCell(df, rows[i])),
         Insider |-> rows[i].Insider,
         Value |-> format_currency(clean_value(rows[i].Value)),
         Value_Float |-> clean_value(rows[i].Value)]]

RECURSIVE SumOf(_, _)
SumOf(rows, insider) ==
    IF rows = <<>> THEN 0
    ELSE (IF rows[1].Insider = insider THEN clean_value(rows[1].Value) ELSE 0)
         + SumOf(Tail(rows), insider)

groupby_max(rows) ==
    [insider \in {rows[i].Insider : i \in 1..Len(rows)} |->
        LET vs == {clean_value(rows[i].Value) : i \in {j \in 1..Len(rows) : rows[j].Insider = insider}}
        IN CHOOSE v \in vs : \A w \in vs : w <= v]

\* groupby("Insider")['Value_Float'].sum(): the Series of totals indexed by
\* insider.
groupby_sum(rows) ==
    [insider \in {rows[i].Insider : i \in 1..Len(rows)} |-> SumOf(rows, insider)]

SeqsOfSet(S) == {q \in [1..Cardinality(S) -> S] : \A i, j \in 1..Cardinality(S) : q[i] = q[j] => i = j}

sort_totals_ascending(series) ==
    {q \in SeqsOfSet(DOMAIN series) :
        \A i, j \in 1..Len(q) : i < j => series[q[i]] <= series[q[j]]}

\* Lines 68-69: Series.sort_values(ascending=False), default kind='quicksort':
\* every descending order of the insiders is a possible outcome.
sort_totals(series) ==
    {q \in SeqsOfSet(DOMAIN series) :
        \A i, j \in 1..Len(q) : i < j => series[q[i]] >= series[q[j]]}

\* Lines 68-74: reset_index, the formatted Value column, Value_Float dropped.
aggregate_rows(series, order) ==
    [i \in 1..Len(order) |-> [Insider |-> order[i], Value |-> format_currency(series[order[i]])]]

FourEmpty == [venda |-> <<>>, compra |-> <<>>, agrupado_venda |-> <<>>, agrupado_compra |-> <<>>]

\* How a run of code ends: it returns a value or raises an exception.
Returns(value) == [raised |-> FALSE, value |-> value]

Raises(name) == [raised |-> TRUE, value |-> name]

\* Lines 33-92, the body of load_data's try statement: the ways it can end on
\* what the retrieval gives.
try_body(fetch) ==
    IF fetch.kind = "raise" THEN {Raises("Exception")}                 \* lines 33-34
    ELSE IF fetch.kind = "none" THEN {Returns(FourEmpty)}              \* lines 36, 90-92
    ELSE IF fetch.rows = <<>> \/ fetch.columns = {} THEN {Returns(FourEmpty)}  \* df.empty
    ELSE IF ~HasDateColumn(fetch) THEN {Returns(FourEmpty)}            \* lines 42-44
    ELSE IF ~HasKindColumn(fetch) THEN {Raises("UnboundLocalError")}   \* line 58 reads df_venda, never bound
    ELSE IF "Value" \notin fetch.columns THEN {Raises("KeyError")}      \* lines 63, 68: no Value_Float column
    ELSE IF "Insider" \notin fetch.columns THEN {Raises("KeyError")}    \* line 68: groupby("Insider")
    ELSE {Returns([venda |-> display_rows(fetch, v),
                   compra |-> display_rows(fetch, c),
                   agrupado_venda |-> aggregate_rows(groupby_sum(v), av),
                   agrupado_compra |-> aggregate_rows(groupby_sum(c), ac)]) :
            v \in sort_by_date(fetch, venda_filter(fetch)),
            c \in sort_by_date(fetch, compra_filter(fetch)),
            av \in sort_totals(groupby_sum(venda_filter(fetch))),
            ac \in sort_totals(groupby_sum(compra_filter(fetch)))}

except_only_retrieval(fetch, end) ==
    IF end.raised /\ fetch.kind = "raise" THEN Returns(FourEmpty) ELSE end

\* Lines 93-95, "except Exception": whatever the body raised, four empty
\* tables are returned.
except_handler(fetch, end) == IF end.raised THEN Returns(FourEmpty) ELSE end

\* load_data (lines 31-95): the ways a call can end.
load_data(fetch) == {except_handler(fetch, end) : end \in try_body(fetch)}

\* ------------------------------------------------------ cache and handler

\* No load_data body ran for the last click: an empty input box or a cache hit.
NotFetched == [kind |-> "cached"]

\* Nothing is displayed: before the first click, and after a click with an
\* empty input box (line 236).
NoTables == [shown |-> FALSE]

\* An exception left load_data: the script run ends at line 229 and no table
\* is displayed.
Uncaught == [shown |-> FALSE, uncaught |-> TRUE]

cache_store_forgets_empty(key, result) ==
    IF result = FourEmpty THEN cache
    ELSE [k \in DOMAIN cache \cup {key} |-> IF k = key THEN result ELSE cache[k]]

\* Line 30, @st.cache_data without ttl or max_entries: the value load_data
\* returned is kept under its argument.
cache_store(key, result) ==
    [k \in DOMAIN cache \cup {key} |-> IF k = key THEN result ELSE cache[k]]

\* Lines 30-31: the memoised load_data.  A stored key is answered from the
\* store; otherwise load_data runs on what the retrieval gives (one of
\* Outcomes) and the value it returns is stored; an exception is not stored.
cached_load_data(key, Outcomes) ==
    IF key \in DOMAIN cache
    THEN /\ tables' = cache[key]
         /\ fetched' = NotFetched
         /\ UNCHANGED <<cache, calls>>
    ELSE /\ Len(calls[key]) < MaxCalls
         /\ \E fetch \in Outcomes :
              \E end \in load_data(fetch) :
                 /\ calls' = [calls EXCEPT ![key] = Append(@, fetch.kind)]
                 /\ fetched' = fetch
                 /\ IF end.raised
                    THEN /\ tables' = Uncaught
                         /\ UNCHANGED cache
                    ELSE /\ tables' = end.value
                         /\ cache' = cache_store(key, end.value)

\* Lines 224-236: a click on "Analyze" with `text` in the input box.
Analyze(text, Outcomes) ==
    /\ ticker' = text
    /\ IF text = <<>>
       THEN /\ tables' = NoTables
            /\ fetched' = NotFetched
            /\ UNCHANGED <<cache, calls>>
       ELSE cached_load_data(Upper(text), Outcomes)

\* ------------------------------------------------------------ input sets

TickerTexts == {<<>>, <<"n", "v">>, <<"N", "V">>, <<"g">>}

TickerKeys == {Upper(t) : t \in TickerTexts \ {<<>>}}

OneTicker == {<<"n", "v">>}

SeqsUpTo(S, n) == UNION {[1..k -> S] : k \in 0..n}

\* The columns the pipeline reads, under the names yfinance gives them.
FeedColumns == {"Start Date", "Text", "Insider", "Value"}

YearMonthDay(y, m, d) == y * 10000 + m * 100 + d

\* The day before the cutoff and the day after it.
Old == YearMonthDay(2022, 12, 31)

Late == YearMonthDay(2023, 1, 2)

SaleText == Str(<<"S", "a", "l", "e">>)

BuyText == Str(<<"B", "U", "Y">>)

PurchaseText == Str(<<"P", "u", "r", "c", "h", "a", "s", "e">>)

\* A description with both words, the first in upper case.
BothText == Str(<<"S", "A", "L", "E", "-", "B", "u", "y">>)

GrantText == Str(<<"G", "r", "a", "n", "t">>)

Init ==
    /\ cache = [k \in {} |-> FourEmpty]
    /\ calls = [k \in TickerKeys |-> <<>>]
    /\ ticker = <<>>
    /\ fetched = NotFetched
    /\ tables = NoTables

\* --- classification and the date filter: dates and kind texts vary.
ClassifyRows ==
    {Row(d, Old, k, Null, <<"A">>, Num(5)) :
        d \in {Old, date_filter, Late},
        k \in {SaleText, BuyText, PurchaseText, BothText, GrantText, Null}}

ClassifyOutcomes == {Frame(FeedColumns, rows) : rows \in SeqsUpTo(ClassifyRows, MaxRows)}

NextClassify == \E text \in OneTicker : Analyze(text, ClassifyOutcomes)

SpecClassify == Init /\ [][NextClassify]_vars

\* ------------------------------------------------------------ properties

\* The last click ran the pipeline proper: a non-empty DataFrame with a date
\* column, a kind column and the Insider and Value columns was retrieved.
PipelineRan ==
    /\ fetched.kind = "df"
    /\ fetched.rows # <<>>
    /\ HasDateColumn(fetched)
    /\ HasKindColumn(fetched)
    /\ {"Insider", "Value"} \subseteq fetched.columns

\* The date an event row shows, read back from its YYYY-MM-DD text.
DateNumber(text) == NatOf(SelectSeq(text, IsDigit))

CountRows(rows, Test(_)) == Cardinality({i \in 1..Len(rows) : Test(rows[i])})

\* The classification the specification describes: Sale is checked first.
Classification(cell) ==
    IF str_contains(cell, SalePattern) THEN "Sale"
    ELSE IF str_contains(cell, PurchasePattern) \/ str_contains(cell, BuyPattern) THEN "Purchase"
    ELSE "Unclassified"

\* The retrieved rows of one classification dated d.
ClassifiedOn(class, d) ==
    CountRows(fetched.rows,
              LAMBDA r : DateCell(fetched, r) = d /\ Classification(KindCell(fetched, r)) = class)

ShownOn(table, d) == CountRows(table, LAMBDA row : DateNumber(row.Date) = d)

InputDates == {DateCell(fetched, fetched.rows[i]) : i \in 1..Len(fetched.rows)}

\* C1: classification is Sale-first and exclusive: a retrieved record on or
\* after the cutoff whose kind text contains both "sale" and "purchase"/"buy"
\* is in the Sale event table only, so the Purchase event table holds, for
\* every date, exactly the records classified Purchase.
C1_SaleFirstExclusive ==
    PipelineRan =>
        \A d \in InputDates :
            d >= date_filter =>
                /\ ShownOn(tables.venda, d) = ClassifiedOn("Sale", d)
                /\ ShownOn(tables.compra, d) = ClassifiedOn("Purchase", d)

\* C3: the date filter is an inclusive lower bound without an upper bound:
\* every event row is dated on or after the cutoff, every Sale- or
\* Purchase-classified record dated on or after the cutoff (the cutoff day
\* included) is in its event table, and a record of the day before is in none.
C3_InclusiveCutoff ==
    PipelineRan =>
        /\ \A i \in 1..Len(tables.venda) : DateNumber(tables.venda[i].Date) >= date_filter
        /\ \A i \in 1..Len(tables.compra) : DateNumber(tables.compra[i].Date) >= date_filter
        /\ \A d \in InputDates :
              d >= date_filter =>
                  /\ ShownOn(tables.venda, d) >= ClassifiedOn("Sale", d)
                  /\ ShownOn(tables.compra, d) >= ClassifiedOn("Purchase", d)

\* A Sale dated at the cutoff is shown while records of the day before and of
\* a later day were retrieved with it.
C3_Witness ==
    /\ PipelineRan
    /\ ClassifiedOn("Sale", date_filter) > 0
    /\ ClassifiedOn("Purchase", Old) > 0
    /\ ClassifiedOn("Purchase", Late) > 0
    /\ ShownOn(tables.venda, date_filter) > 0
    /\ ShownOn(tables.compra, Late) > 0

\* --- the value parser: raw values vary.
ThousandText == Str(<<"$", "1", ",", "2", "0", "0">>)

WordText == Str(<<"n", "a">>)

MinusText == Str(<<"-", "$", "5">>)

EmptyText == Str(<<>>)

CommasText == Str(<<"1", ",", "2", ",">>)

RawValues ==
    {Null, Num(0 - 3), Num(0), Num(7), ThousandText, WordText, MinusText, EmptyText, CommasText}

ValueRows == {Row(Late, Old, k, Null, <<"A">>, v) : k \in {SaleText, BuyText}, v \in RawValues}

ValueOutcomes == {Frame(FeedColumns, rows) : rows \in SeqsUpTo(ValueRows, MaxValueRows)}

NextValues == \E text \in OneTicker : Analyze(text, ValueOutcomes)

SpecValues == Init /\ [][NextValues]_vars

\* The retrieved rows the two filters keep.
RetrievedSales ==
    SelectSeq(fetched.rows,
              LAMBDA r : DateCell(fetched, r) >= date_filter
                         /\ str_contains(KindCell(fetched, r), SalePattern))

RetrievedPurchases ==
    SelectSeq(fetched.rows,
              LAMBDA r : DateCell(fetched, r) >= date_filter
                         /\ (\/ str_contains(KindCell(fetched, r), PurchasePattern)
                             \/ str_contains(KindCell(fetched, r), BuyPattern)))

\* A raw value that is a negative number, or the text of one.
NegativeRaw(cell) ==
    \/ cell.t = "num" /\ cell.n < 0
    \/ /\ cell.t = "str"
       /\ LET digits == SelectSeq(cell.s, IsDigit)
              rest == SelectSeq(cell.s, LAMBDA c : c \notin {"$", ","})
          IN /\ rest = <<"-">> \o digits
             /\ \E i \in 1..Len(digits) : digits[i] # "0"

\* An aggregate row whose formatted total is negative.
NegativeTotal(row) == row.Value[2] = "-"

ExpectedValue(cell) ==
    CASE cell = Null -> 0
      [] cell = Num(0 - 3) -> 0 - 3
      [] cell = Num(0) -> 0
      [] cell = Num(7) -> 7
      [] cell = ThousandText -> 1200
      [] cell = WordText -> 0
      [] cell = MinusText -> 0 - 5
      [] cell = EmptyText -> 0
      [] cell = CommasText -> 12

ValuesShown == {0 - 5, 0 - 3, 0, 7, 12, 1200}

\* C7: the value parser never signals failure: a missing value gives 0, a
\* number gives itself, a string gives the number left after removing "$" and
\* ",", and a string that is no number gives 0; and no such cell aborts the
\* run: each event table shows every one of its records with that value.
C7_ParserNeverFails ==
    PipelineRan =>
        /\ Len(tables.venda) = Len(RetrievedSales)
        /\ Len(tables.compra) = Len(RetrievedPurchases)
        /\ \A n \in ValuesShown \cup {tables.venda[i].Value_Float : i \in 1..Len(tables.venda)}
                                \cup {tables.compra[i].Value_Float : i \in 1..Len(tables.compra)} :
              /\ CountRows(tables.venda, LAMBDA row : row.Value_Float = n)
                    = CountRows(RetrievedSales, LAMBDA r : ExpectedValue(r.Value) = n)
              /\ CountRows(tables.compra, LAMBDA row : row.Value_Float = n)
                    = CountRows(RetrievedPurchases, LAMBDA r : ExpectedValue(r.Value) = n)

\* A purchase whose value is no number is shown with 0 beside one read from
\* "$1,200".
C7_Witness ==
    /\ PipelineRan
    /\ {fetched.rows[i].Value : i \in 1..Len(fetched.rows)} = {WordText, ThousandText}
    /\ \A i \in 1..Len(fetched.rows) : fetched.rows[i].Text = BuyText
    /\ Len(tables.compra) = Len(fetched.rows)
    /\ \E i \in 1..Len(tables.compra) : tables.compra[i].Value_Float = 1200
    /\ \E i \in 1..Len(tables.compra) : tables.compra[i].Value_Float = 0

\* --- aggregation: insiders and amounts vary.
AggregateRows ==
    {Row(Late, Old, SaleText, Null, who, Num(v)) : who \in {<<"A">>, <<"B">>, <<"C">>}, v \in {25, 50, 100}}
    \cup {Row(Late, Old, BuyText, Null, who, Num(50)) : who \in {<<"A">>, <<"B">>, <<"C">>}}

AggregateOutcomes == {Frame(FeedColumns, rows) : rows \in SeqsUpTo(AggregateRows, MaxRows)}

NextAggregate == \E text \in OneTicker : Analyze(text, AggregateOutcomes)

SpecAggregate == Init /\ [][NextAggregate]_vars

InsidersOf(table) == {table[i].Insider : i \in 1..Len(table)}

\* The sum of the Value_Float column of an insider's rows of an event table.
RECURSIVE TotalOf(_, _)
TotalOf(table, insider) ==
    IF table = <<>> THEN 0
    ELSE (IF table[1].Insider = insider THEN table[1].Value_Float ELSE 0)
         + TotalOf(Tail(table), insider)

\* The amount an aggregate row shows, read back from "$1,234.00".
AmountShown(row) == FloatOf(StripCurrency(SubSeq(row.Value, 1, Len(row.Value) - 3)))

AggregatesExactly(aggregate, events) ==
    /\ InsidersOf(aggregate) = InsidersOf(events)
    /\ Len(aggregate) = Cardinality(InsidersOf(events))
    /\ \A i \in 1..Len(aggregate) : AmountShown(aggregate[i]) = TotalOf(events, aggregate[i].Insider)

\* C4: aggregation is complete and exact: each aggregate table has exactly one
\* row per distinct insider of its event table, none missing, none twice, none
\* added, whose total is the sum of that insider's values in the event table;
\* an empty event table gives an empty aggregate.
C4_AggregationExact ==
    PipelineRan =>
        /\ AggregatesExactly(tables.agrupado_venda, tables.venda)
        /\ AggregatesExactly(tables.agrupado_compra, tables.compra)
        /\ (tables.venda = <<>> => tables.agrupado_venda = <<>>)
        /\ (tables.compra = <<>> => tables.agrupado_compra = <<>>)

\* The sales of A (100 and 25) and of B (50) give the two rows A 125, B 50,
\* and no purchase gives an empty purchase aggregate.
C4_Witness ==
    /\ PipelineRan
    /\ Len(tables.venda) = 3
    /\ tables.compra = <<>>
    /\ tables.agrupado_compra = <<>>
    /\ Len(tables.agrupado_venda) = 2
    /\ tables.agrupado_venda[1].Insider = <<"A">>
    /\ AmountShown(tables.agrupado_venda[1]) = 125
    /\ AmountShown(tables.agrupado_venda[2]) = 50

FirstRowOf(table, insider) == CHOOSE i \in 1..Len(table) :
    /\ table[i].Insider = insider
    /\ \A j \in 1..(i - 1) : table[j].Insider # insider

DescendingTotals(aggregate) ==
    \A i, j \in 1..Len(aggregate) : i < j => AmountShown(aggregate[i]) >= AmountShown(aggregate[j])

TiesInFirstAppearanceOrder(aggregate, events) ==
    \A i, j \in 1..Len(aggregate) :
        i < j /\ AmountShown(aggregate[i]) = AmountShown(aggregate[j])
            => FirstRowOf(events, aggregate[i].Insider) < FirstRowOf(events, aggregate[j].Insider)

\* C5 as claimed: aggregate rows are in descending order of total, and insiders
\* of equal total are in the order of their first rows in the event table.
C5_DescendingStable ==
    PipelineRan =>
        /\ DescendingTotals(tables.agrupado_venda)
        /\ DescendingTotals(tables.agrupado_compra)
        /\ TiesInFirstAppearanceOrder(tables.agrupado_venda, tables.venda)
        /\ TiesInFirstAppearanceOrder(tables.agrupado_compra, tables.compra)

\* C5 as amended: aggregate rows are in descending order of total (the order
\* of insiders of equal total is not fixed).
C5_Descending ==
    PipelineRan =>
        /\ DescendingTotals(tables.agrupado_venda)
        /\ DescendingTotals(tables.agrupado_compra)

\* Three insiders sold; the first aggregate row is above two of equal total.
C5_Witness ==
    /\ PipelineRan
    /\ Len(tables.agrupado_venda) = 3
    /\ AmountShown(tables.agrupado_venda[1]) > AmountShown(tables.agrupado_venda[2])
    /\ AmountShown(tables.agrupado_venda[2]) = AmountShown(tables.agrupado_venda[3])

\* --- the order of the event tables: dates and insiders vary.
DateRows ==
    {Row(d, Old, k, Null, who, Num(5)) :
        d \in {Old, date_filter, Late}, k \in {SaleText, BuyText},
        who \in {<<"A">>, <<"B">>, <<"C">>}}

DateOutcomes == {Frame(FeedColumns, rows) : rows \in SeqsUpTo(DateRows, MaxRows)}

NextDates == \E text \in OneTicker : Analyze(text, DateOutcomes)

SpecDates == Init /\ [][NextDates]_vars

DescendingDates(table) ==
    \A i, j \in 1..Len(table) : i < j => DateNumber(table[i].Date) >= DateNumber(table[j].Date)

\* The rows of a stable descending sort by date: each row is preceded by the
\* rows of a later date and by the earlier rows of its own date.
StablePlace(rows, i) ==
    1 + Cardinality({j \in 1..Len(rows) :
            \/ DateCell(fetched, rows[j]) > DateCell(fetched, rows[i])
            \/ DateCell(fetched, rows[j]) = DateCell(fetched, rows[i]) /\ j < i})

InInputOrder(table, rows) ==
    /\ Len(table) = Len(rows)
    /\ \A i \in 1..Len(rows) :
          /\ table[StablePlace(rows, i)].Insider = rows[i].Insider
          /\ DateNumber(table[StablePlace(rows, i)].Date) = DateCell(fetched, rows[i])

\* C9 as claimed: each event table is in descending order of event date, and
\* rows of the same date keep the order they had in the retrieved record set.
C9_DescendingStable ==
    PipelineRan =>
        /\ DescendingDates(tables.venda)
        /\ DescendingDates(tables.compra)
        /\ InInputOrder(tables.venda, RetrievedSales)
        /\ InInputOrder(tables.compra, RetrievedPurchases)

\* C9 as amended: each event table is in descending order of event date (the
\* order of rows of the same date is not fixed).
C9_Descending ==
    PipelineRan =>
        /\ DescendingDates(tables.venda)
        /\ DescendingDates(tables.compra)

\* Sales retrieved oldest first are shown latest first, two of them of one day.
C9_Witness ==
    /\ PipelineRan
    /\ Len(fetched.rows) = 3
    /\ fetched.rows[1].StartDate = date_filter
    /\ fetched.rows[2].StartDate = Late
    /\ fetched.rows[3].StartDate = Late
    /\ Len(tables.venda) = 3
    /\ DateNumber(tables.venda[1].Date) = Late
    /\ DateNumber(tables.venda[3].Date) = date_filter

\* --- the shape of the record set: the retrieval's outcome and the columns vary.

ColumnSets ==
    {dates \cup kinds \cup others :
        dates \in SUBSET {"Start Date", "Date"}, kinds \in SUBSET {"Text", "Type"},
        others \in {{"Insider", "Value"}, {"Insider"}, {"Value"}}}

SchemaRows ==
    {Row(sd, d, k[1], k[2], <<"A">>, Num(5)) :
        sd \in {Old, Late}, d \in {Old, Late}, k \in {<<SaleText, BuyText>>, <<BuyText, GrantText>>}}

SchemaOutcomes ==
    {Raised, NoFrame}
    \cup {Frame(columns, rows) : columns \in ColumnSets, rows \in SeqsUpTo(SchemaRows, MaxSchemaRows)}

NextSchema == \E text \in OneTicker : Analyze(text, SchemaOutcomes)

SpecSchema == Init /\ [][NextSchema]_vars

\* The retrieval failed, gave no record, or gave records without a date column
\* or without a kind column.
RecordSetProblem ==
    \/ fetched.kind \in {"raise", "none"}
    \/ /\ fetched.kind = "df"
       /\ \/ fetched.rows = <<>>
          \/ {"Start Date", "Date"} \cap fetched.columns = {}
          \/ {"Text", "Type"} \cap fetched.columns = {}

\* C2: no partial output on a problem with the record set or the transport:
\* when the retrieval fails, gives no record, or gives records without a date
\* column or without a kind column, load_data returns, and returns four empty
\* tables.
C2_NoPartialOutput ==
    RecordSetProblem =>
        /\ tables = FourEmpty
        /\ tables.venda = <<>> /\ tables.compra = <<>>
        /\ tables.agrupado_venda = <<>> /\ tables.agrupado_compra = <<>>

\* Records with a date column and no kind column were retrieved, and four
\* empty tables came back.
C2_Witness ==
    /\ fetched.kind = "df"
    /\ Len(fetched.rows) = 2
    /\ "Start Date" \in fetched.columns
    /\ {"Text", "Type"} \cap fetched.columns = {}
    /\ tables = FourEmpty

\* --- the cache: tickers and the retrieval's outcome vary.
CacheOutcomes ==
    {Raised, NoFrame, Frame(FeedColumns, <<>>),
     Frame(FeedColumns, <<Row(Late, Old, SaleText, Null, <<"A">>, Num(5))>>),
     Frame(FeedColumns, <<Row(Late, Old, BuyText, Null, <<"B">>, Num(7))>>)}

NextCache == \E text \in TickerTexts : Analyze(text, CacheOutcomes)

SpecCache == Init /\ [][NextCache]_vars

\* C10: load_data's outcome is memoised per ticker however the run ended: once
\* a request for a ticker has completed, also one whose retrieval failed and
\* was caught, the stored result stays, every later request for the ticker
\* (in either case of letters) is given it, and the ticker is not retrieved
\* again.
C10_MemoisedWhateverTheOutcome ==
    [][\A key \in TickerKeys :
          calls[key] # <<>> =>
              /\ key \in DOMAIN cache
              /\ key \in DOMAIN cache'
              /\ cache'[key] = cache[key]
              /\ calls'[key] = calls[key]
              /\ (ticker' # <<>> /\ Upper(ticker') = key
                    => tables' = cache[key] /\ fetched' = NotFetched)]_vars

\* The retrieval of NV failed once; a later request for "nv" was answered
\* from the store with the four empty tables, after another ticker was loaded.
C10_Witness ==
    /\ calls[<<"N", "V">>] = <<"raise">>
    /\ calls[<<"G">>] = <<"df">>
    /\ <<"N", "V">> \in DOMAIN cache
    /\ cache[<<"N", "V">>] = FourEmpty
    /\ ticker = <<"n", "v">>
    /\ fetched = NotFetched
    /\ tables = FourEmpty

====
